---- MODULE Spec2Model ----
(***************************************************************************)
(* Admin dashboard of the hostel grievance analyzer: the data view layer.  *)
(* pages/Dashboard.jsx (fetchDashboardData, the mount effect with its      *)
(* 30-second interval, the refresh and retry buttons) over the axios       *)
(* dashboard client.                                                       *)
(*                                                                         *)
(* A Dashboard component instance owns its own state cells; the closures   *)
(* created by an instance (the interval callback, the continuation of an   *)
(* in-flight fetch) keep calling that instance's setters, also after the   *)
(* instance has been unmounted.  view[i] is what the setters of instance i *)
(* were last called with.                                                  *)
(*                                                                         *)
(* Five specifications share the variables, each holding the others' at    *)
(* their initial values: Spec (the fetches and mounts of Dashboard),       *)
(* SpecPage (the pagination arithmetic of IssueTable), SpecApply (the      *)
(* filter of IssueTable on given props), SpecTable (one Dashboard with     *)
(* its filter panel and issue table over concrete issue lists) and         *)
(* SpecDetail (pages/IssueDetail.jsx: the fetches of one mounted           *)
(* IssueDetail across route changes, and its status dialog).               *)
(***************************************************************************)
EXTENDS Naturals, Integers, Sequences, FiniteSets, TLC

\* ---- bounds of the model ------------------------------------------------
MaxCalls == 2      \* fetchDashboardData calls started in one behaviour
MaxMounts == 2     \* Dashboard instances mounted in one behaviour
MaxInFlight == 2   \* calls in flight at the same time

\* ---- program constants --------------------------------------------------
ClientTimeoutMs == 10000
RefreshIntervalMs == 30000

CallIds == 1..MaxCalls
InstIds == 1..MaxMounts

\* the four parallel reads, in the order of the Promise.all array
Reads == {"health", "issues", "slaTimers", "trends"}

\* ---- errors -------------------------------------------------------------
\* An error object as the catch block sees it: its message (a sequence of
\* words) and the status of its response (0: the error has no response).
MsgNoIssues == <<"No", "issues", "data", "received", "from", "server">>
MsgNetworkError == <<"Network", "Error">>
MsgTimeout == <<"timeout", "of", ToString(ClientTimeoutMs) \o "ms", "exceeded">>
MsgStatus(n) == <<"Request", "failed", "with", "status", "code", ToString(n)>>

NoErr == [message |-> <<>>, status |-> 0]
HttpError(n) == [message |-> MsgStatus(n), status |-> n]
NetworkError == [message |-> MsgNetworkError, status |-> 0]
TimeoutError == [message |-> MsgTimeout, status |-> 0]
NoIssuesError == [message |-> MsgNoIssues, status |-> 0]

\* what a read of the dashboard client can reject with
HttpStatuses == {400, 404, 500, 503}
RejectErrors == {HttpError(n) : n \in HttpStatuses} \cup {NetworkError, TimeoutError}

\* String.prototype.includes, on word sequences
Includes(s, sub) ==
  \E i \in 1..(Len(s) + 1) :
    /\ i + Len(sub) - 1 <= Len(s)
    /\ SubSeq(s, i, i + Len(sub) - 1) = sub

\* the user-facing messages
NoError == "null"
ErrEmptyData == "Server returned empty data. Please try again."
ErrNotFound == "Dashboard endpoint not found. Please check configuration."
ErrServer == "Server error. Please try again later."
ErrNetwork == "Network connection failed. Please check your internet."
ErrGeneric == "Failed to load dashboard data. Please refresh or try again later."

\* the if-chain of the catch block
ErrorMessage(err) ==
  IF err.message = MsgNoIssues THEN ErrEmptyData
  ELSE IF err.status = 404 THEN ErrNotFound
  ELSE IF err.status = 500 THEN ErrServer
  ELSE IF Includes(err.message, MsgNetworkError) THEN ErrNetwork
  ELSE ErrGeneric

\* ---- state of a Dashboard instance --------------------------------------
\* A snapshot field is 0 (null) or the id of the call whose payload it holds.
NullData == [health |-> 0, issues |-> 0, slaTimers |-> 0, trends |-> 0]
\* summaryStats is 0 (all counters zero) or the id of the call whose payloads
\* calculateSummaryStats reduced; lastUpdated is 0 (null) or the id of the
\* call that stamped it.
InitView ==
  [data |-> NullData, isLoading |-> TRUE, isRefreshing |-> FALSE,
   lastUpdated |-> 0, error |-> NoError, summary |-> 0]

\* ---- calls of fetchDashboardData ----------------------------------------
\* st: "unused" (not started), "pending" (suspended at the await), "settled"
\* (the Promise.all promise has settled and the rest of the function is queued
\* as a microtask), "ok" (the try block ran to its end), "failed" (the catch
\* block ran).  reads[r]: "pending", "resolved" or "rejected".  payload[r]:
\* "truthy" or "falsy", what the awaited array holds for read r; nothing looks
\* at a payload before the function resumes, so it is drawn when Promise.all
\* fulfils.  err: the reason Promise.all rejected with; stillPending: the
\* reads not yet settled when it rejected.  origin: who called.
\* old: the call was in flight at the last mount or interval tick.  Once the
\* function has returned, its arguments and locals are gone.
NoReads == [r \in Reads |-> "pending"]
NoPayload == [r \in Reads |-> "falsy"]
Payloads == [Reads -> {"truthy", "falsy"}]
NoCall ==
  [st |-> "unused", owner |-> 0, isRefresh |-> FALSE, origin |-> "none",
   reads |-> NoReads, payload |-> NoPayload, err |-> NoErr,
   stillPending |-> {}, old |-> FALSE]

VARIABLES mounted, inst, timers, view, calls, ncalls, lastDone
dashVars == <<mounted, inst, timers, view, calls, ncalls, lastDone>>

\* ---- pagination of the issue table (components/tables/IssueTable) -------
\* pgCount: filteredIssues.length; pgPage: currentPage; pgLast: the last
\* goToPage call, its argument and the currentPage it found.
VARIABLES pgCount, pgPage, pgLast
pageVars == <<pgCount, pgPage, pgLast>>

NoGoTo == [called |-> FALSE, arg |-> 0, before |-> 0]
PageIdle == pgCount = 0 /\ pgPage = 1 /\ pgLast = NoGoTo

\* ---- the filter of the issue table applied to given inputs --------------
\* apFilters: the filters prop; apIssues: the issues prop; apResult: the value
\* of filteredIssues once computed.
VARIABLES apFilters, apIssues, apResult
applyVars == <<apFilters, apIssues, apResult>>

NotApplied == [done |-> FALSE, out |-> <<>>]
ApplyIdle == apFilters = <<>> /\ apIssues = <<>> /\ apResult = NotApplied

\* ---- the dashboard with its filter panel and issue table ----------------
\* Dashboard: dataIssues (dashboardData.issues), isLoading, isRefreshing,
\* error, summaryStats, tableFilters; fetching counts the fetchDashboardData
\* calls awaiting their reads. ExcelStyleFilters: filters, activeFilter.
\* IssueTable: currentPage. sameObject: the object held by filters is the one
\* held by tableFilters. lastOp: the last handler run and the currentPage it
\* found.
VARIABLES dataIssues, isLoading, isRefreshing, error, summaryStats, fetching,
          tableFilters, filters, activeFilter, currentPage, sameObject, lastOp
tableVars == <<dataIssues, isLoading, isRefreshing, error, summaryStats,
               fetching, tableFilters, filters, activeFilter, currentPage,
               sameObject, lastOp>>

Dims == {"priority", "severity", "health", "category", "hostel", "slaStatus"}

\* useState({ priority: [], severity: [], ... }) of the filter panel
EmptyFilters == [key \in Dims |-> <<>>]
\* activeFilter null
NoActiveFilter == "null"
\* dashboardData.issues null
NullIssues == [kind |-> "null", issues |-> <<>>]
ZeroSummary ==
  [active_issues |-> 0, critical_issues |-> 0, sla_risk_issues |-> 0,
   complaints_today |-> 0]

\* the dashboard after its first render and mount effect: the initial fetch
\* is awaiting its reads, the panel and the table are not on screen
TableInit ==
  /\ dataIssues = NullIssues
  /\ isLoading = TRUE
  /\ isRefreshing = FALSE
  /\ error = NoError
  /\ summaryStats = ZeroSummary
  /\ fetching = 1
  /\ tableFilters = <<>>
  /\ filters = EmptyFilters
  /\ activeFilter = NoActiveFilter
  /\ currentPage = 1
  /\ sameObject = FALSE
  /\ lastOp = [op |-> "mount", page |-> 1]

\* ---- the issue detail page (pages/IssueDetail) --------------------------
\* route: the issueId of the route; detail: the state cells of IssueDetail;
\* detailFetches: per issueId, the fetchIssueDetails calls awaiting their
\* response; statusWrite: the updateStatus call awaiting its response;
\* successTimers: the 3-second timeouts not yet fired.
VARIABLES route, detail, detailFetches, statusWrite, successTimers
detailVars == <<route, detail, detailFetches, statusWrite, successTimers>>

IssueIds == {"ISS-1", "ISS-2"}
NullIssue == [id |-> "null", status |-> "null", resolved_at |-> "null"]
NoWrite == [pending |-> FALSE, id |-> "null", newStatus |-> "null"]

\* the useState initial values of IssueDetail
InitDetail ==
  [issue |-> NullIssue, isLoading |-> TRUE, isFetching |-> FALSE,
   error |-> NoError, isStatusModalOpen |-> FALSE, isUpdatingStatus |-> FALSE,
   statusError |-> NoError, statusSuccess |-> FALSE]

\* no issue detail page is open
DetailIdle ==
  /\ route = "none"
  /\ detail = InitDetail
  /\ detailFetches = [id \in IssueIds |-> 0]
  /\ statusWrite = NoWrite
  /\ successTimers = 0

vars == <<dashVars, pageVars, applyVars, tableVars, detailVars>>
notDash == <<pageVars, applyVars, tableVars, detailVars>>
notPage == <<dashVars, applyVars, tableVars, detailVars>>
notApply == <<dashVars, pageVars, tableVars, detailVars>>
notTable == <<dashVars, pageVars, applyVars, detailVars>>
notDetail == <<dashVars, pageVars, applyVars, tableVars>>

Init ==
  /\ PageIdle
  /\ ApplyIdle
  /\ TableInit
  /\ DetailIdle
  /\ mounted = FALSE
  /\ inst = 0
  /\ timers = {}
  /\ view = [i \in InstIds |-> InitView]
  /\ calls = [c \in CallIds |-> NoCall]
  /\ ncalls = 0
  /\ lastDone = [i \in InstIds |-> 0]

\* ---- fetchDashboardData -------------------------------------------------
\* up to the await
StartState(v, isRefresh) ==
  [v EXCEPT !.isRefreshing = IF isRefresh THEN TRUE ELSE @,
            !.isLoading = IF isRefresh THEN @ ELSE TRUE,
            !.error = NoError]

\* finally
FinallyState(v) == [v EXCEPT !.isLoading = FALSE, !.isRefreshing = FALSE]

\* x || null for the payload of read r of call c
OrNull(c, pl, r) == IF pl[r] = "truthy" THEN c ELSE 0

\* the object passed to setDashboardData in the try block
Installed(c, pl) ==
  [health |-> OrNull(c, pl, "health"), issues |-> OrNull(c, pl, "issues"),
   slaTimers |-> OrNull(c, pl, "slaTimers"), trends |-> OrNull(c, pl, "trends")]

SuccessState_Merging(v, c, pl) ==
  FinallyState([v EXCEPT !.data = [f \in Reads |-> IF pl[f] = "truthy" THEN c
                                                   ELSE v.data[f]],
                         !.summary = c, !.lastUpdated = c])

\* rest of the try block after the await, then finally
SuccessState(v, c, pl) ==
  FinallyState([v EXCEPT !.data = Installed(c, pl), !.summary = c,
                         !.lastUpdated = c])

FailureState_KeepingData(v, err) ==
  FinallyState([v EXCEPT !.error = ErrorMessage(err)])

\* catch, then finally
FailureState(v, err) ==
  FinallyState([v EXCEPT !.data = NullData, !.summary = 0,
                         !.error = ErrorMessage(err)])

AllResolved_IssuesOnly(rd) == rd["issues"] = "resolved"

\* Promise.all: fulfilled once every read is fulfilled
AllResolved(rd) == \A r \in Reads : rd[r] = "resolved"

PendingReads(rd) == {r \in Reads : rd[r] = "pending"}

IssuesMissing_Unchecked(pl) == FALSE

\* if (!issuesData) throw
IssuesMissing(pl) == pl["issues"] # "truthy"

\* The rest of a settled call runs before any timer, click or network event.
NoContinuationQueued == \A c \in CallIds : calls[c].st # "settled"

InFlight == {c \in CallIds : calls[c].st \in {"pending", "settled"}}

\* A call made at the last mount or tick, or in flight then, settles within
\* the client timeout, hence before the next tick of the interval.
NoOldCallInFlight ==
  ClientTimeoutMs < RefreshIntervalMs =>
    \A c \in CallIds : calls[c].st = "pending" => ~calls[c].old

Aged(cs) == [c \in CallIds |-> IF cs[c].st = "pending"
                               THEN [cs[c] EXCEPT !.old = TRUE] ELSE cs[c]]

NewCall(i, isRefresh, origin) ==
  [NoCall EXCEPT !.st = "pending", !.owner = i, !.isRefresh = isRefresh,
                 !.origin = origin]

StartFetch(i, isRefresh, origin) ==
  /\ ncalls < MaxCalls
  /\ Cardinality(InFlight) < MaxInFlight
  /\ ncalls' = ncalls + 1
  /\ view' = [view EXCEPT ![i] = StartState(@, isRefresh)]
  /\ calls' = LET cs == [calls EXCEPT ![ncalls + 1] = NewCall(i, isRefresh, origin)]
              IN IF origin = "manual" THEN cs ELSE Aged(cs)

\* ---- the mount effect ---------------------------------------------------
Mount ==
  /\ UNCHANGED notDash
  /\ NoContinuationQueued
  /\ ~mounted
  /\ inst < MaxMounts
  /\ mounted' = TRUE
  /\ inst' = inst + 1
  /\ timers' = timers \cup {inst + 1}
  /\ StartFetch(inst + 1, FALSE, "mount")
  /\ UNCHANGED lastDone

UnmountTimers_Leaking(ts, i) == ts

\* clearInterval(interval), interval being the one instance i created
UnmountTimers(ts, i) == ts \ {i}

Unmount ==
  /\ UNCHANGED notDash
  /\ NoContinuationQueued
  /\ mounted
  /\ mounted' = FALSE
  /\ timers' = UnmountTimers(timers, inst)
  /\ UNCHANGED <<inst, view, calls, ncalls, lastDone>>

TimerTick(i) ==
  /\ UNCHANGED notDash
  /\ NoContinuationQueued
  /\ i \in timers
  /\ NoOldCallInFlight
  /\ StartFetch(i, TRUE, "timer")
  /\ UNCHANGED <<mounted, inst, timers, lastDone>>

\* the Refresh button of the header and the two Retry buttons
ManualRefresh ==
  /\ UNCHANGED notDash
  /\ NoContinuationQueued
  /\ mounted
  /\ ~view[inst].isRefreshing
  /\ StartFetch(inst, TRUE, "manual")
  /\ UNCHANGED <<mounted, inst, timers, lastDone>>

\* ---- settlement of the reads --------------------------------------------
\* A read that settles after Promise.all has rejected runs no code of the
\* dashboard; it is not a step.
ResolveRead(c, r) ==
  /\ UNCHANGED notDash
  /\ NoContinuationQueued
  /\ calls[c].st = "pending"
  /\ calls[c].reads[r] = "pending"
  /\ LET rd == [calls[c].reads EXCEPT ![r] = "resolved"] IN
     IF AllResolved(rd)
     THEN \E pl \in Payloads :
            calls' = [calls EXCEPT ![c].reads = NoReads, ![c].st = "settled",
                                   ![c].payload = pl]
     ELSE calls' = [calls EXCEPT ![c].reads = rd]
  /\ UNCHANGED <<mounted, inst, timers, view, ncalls, lastDone>>

RejectRead(c, r, err) ==
  /\ UNCHANGED notDash
  /\ NoContinuationQueued
  /\ calls[c].st = "pending"
  /\ calls[c].reads[r] = "pending"
  /\ calls' = [calls EXCEPT ![c].reads = NoReads, ![c].st = "settled",
                            ![c].err = err,
                            ![c].stillPending = PendingReads(calls[c].reads) \ {r}]
  /\ UNCHANGED <<mounted, inst, timers, view, ncalls, lastDone>>

\* the record of a call that has returned
Returned(outcome) == [NoCall EXCEPT !.st = outcome]

\* the function resumes after the await and runs to its end
Resume(c) ==
  /\ UNCHANGED notDash
  /\ calls[c].st = "settled"
  /\ LET o == calls[c].owner
         pl == calls[c].payload
         thrown == IF calls[c].err # NoErr THEN calls[c].err
                   ELSE IF IssuesMissing(pl) THEN NoIssuesError
                   ELSE NoErr
     IN /\ view' = [view EXCEPT ![o] = IF thrown = NoErr
                                       THEN SuccessState(@, c, pl)
                                       ELSE FailureState(@, thrown)]
        /\ calls' = [calls EXCEPT ![c] = Returned(IF thrown = NoErr THEN "ok" ELSE "failed")]
        /\ lastDone' = [lastDone EXCEPT ![o] = c]
  /\ UNCHANGED <<mounted, inst, timers, ncalls>>

Next ==
  \/ Mount
  \/ Unmount
  \/ \E i \in InstIds : TimerTick(i)
  \/ ManualRefresh
  \/ \E c \in CallIds, r \in Reads : ResolveRead(c, r)
  \/ \E c \in CallIds, r \in Reads, err \in RejectErrors : RejectRead(c, r, err)
  \/ \E c \in CallIds : Resume(c)

Spec == Init /\ [][Next]_vars

TypeOK ==
  /\ mounted \in BOOLEAN
  /\ inst \in 0..MaxMounts
  /\ timers \subseteq InstIds
  /\ ncalls \in 0..MaxCalls
  /\ \A c \in CallIds : calls[c].st \in {"unused", "pending", "settled", "ok", "failed"}
  /\ \A c \in CallIds : (calls[c].st = "unused") <=> (c > ncalls)

\* ---- IssueTable: pagination ---------------------------------------------
\* dashboardApi.getIssues({ limit: 200 }): the list never has more issues
IssueLimit == 200
itemsPerPage == 20
maxVisible == 5

CeilDiv_Floor(n, d) == n \div d

\* Math.ceil(n / d) for n >= 0, d > 0
CeilDiv(n, d) == IF n % d = 0 THEN n \div d ELSE (n \div d) + 1

\* const totalPages = Math.ceil(filteredIssues.length / itemsPerPage)
TotalPages(n) == CeilDiv(n, itemsPerPage)

\* the numbers pushed by: for (let i = a; i <= b; i++) numbers.push(i)
PushRange(a, b) == IF b < a THEN <<>> ELSE [k \in 1..(b - a + 1) |-> a + k - 1]

PaginationNumbers_LongTail(cp, tp) ==
  IF tp <= maxVisible THEN PushRange(1, tp)
  ELSE IF cp <= 3 THEN PushRange(1, maxVisible)
  ELSE IF cp >= tp - 2 THEN PushRange(tp - maxVisible, tp)
  ELSE PushRange(cp - 2, cp + 2)

\* paginationNumbers
PaginationNumbers(cp, tp) ==
  IF tp <= maxVisible THEN PushRange(1, tp)
  ELSE IF cp <= 3 THEN PushRange(1, maxVisible)
  ELSE IF cp >= tp - 2 THEN PushRange(tp - maxVisible + 1, tp)
  ELSE PushRange(cp - 2, cp + 2)

GoToPageResult_NoUpperCheck(cp, tp, page) == IF page >= 1 THEN page ELSE cp

\* currentPage after goToPage(page)
GoToPageResult(cp, tp, page) == IF page >= 1 /\ page <= tp THEN page ELSE cp

\* the arguments goToPage is tried with
PageArgs == (0 - 1)..(TotalPages(IssueLimit) + 2)
Counts == 0..IssueLimit

PageInit ==
  /\ pgCount \in Counts
  /\ pgPage = 1
  /\ pgLast = NoGoTo

PgGoToPage(page) ==
  /\ UNCHANGED notPage
  /\ pgPage' = GoToPageResult(pgPage, TotalPages(pgCount), page)
  /\ pgLast' = [called |-> TRUE, arg |-> page, before |-> pgPage]
  /\ UNCHANGED pgCount

\* the issues or the filters prop changed and filteredIssues was recomputed;
\* a new filters object also runs the effect that calls setCurrentPage(1)
PgRecompute(n, newFilters) ==
  /\ UNCHANGED notPage
  /\ pgCount' = n
  /\ pgPage' = IF newFilters THEN 1 ELSE pgPage
  /\ pgLast' = NoGoTo

DashIdle ==
  /\ mounted = FALSE
  /\ inst = 0
  /\ timers = {}
  /\ view = [i \in InstIds |-> InitView]
  /\ calls = [c \in CallIds |-> NoCall]
  /\ ncalls = 0
  /\ lastDone = [i \in InstIds |-> 0]

InitPage == DashIdle /\ ApplyIdle /\ TableInit /\ DetailIdle /\ PageInit

NextPage ==
  \/ \E page \in PageArgs : PgGoToPage(page)
  \/ \E n \in Counts, newFilters \in BOOLEAN : PgRecompute(n, newFilters)

SpecPage == InitPage /\ [][NextPage]_vars

\* ---- issues and filter states -------------------------------------------
\* An issue as the code reads it. priority is absent ("none"), an object with
\* a label ("obj") or, in legacy records, a bare string ("str"); severity,
\* health and sla hold the value of severity?.label, health?.label and
\* sla?.risk; "" is a value JavaScript treats as missing (undefined or '').
\* total and count hold complaints?.total and complaint_count.
Absent == [kind |-> "absent", n |-> 0]
Num(n) == [kind |-> "num", n |-> n]
Str == [kind |-> "str", n |-> 0]

NoPriority == [kind |-> "none", label |-> ""]
PriorityObj(l) == [kind |-> "obj", label |-> l]
PriorityStr(l) == [kind |-> "str", label |-> l]

Issue(st, pr, sev, he, cat, ho, sl, tot, cnt) ==
  [status |-> st, priority |-> pr, severity |-> sev, health |-> he,
   category |-> cat, hostel |-> ho, sla |-> sl, total |-> tot, count |-> cnt]

\* the value an issue has for a filter key
DimValue(issue, key) ==
  CASE key = "priority" ->
         IF issue.priority.kind = "obj" THEN issue.priority.label ELSE ""
    [] key = "severity" -> issue.severity
    [] key = "health" -> issue.health
    [] key = "category" -> issue.category
    [] key = "hostel" -> issue.hostel
    [] key = "slaStatus" -> issue.sla

\* filters[key], where a key the object lacks (the default {}) reads undefined
\* and undefined?.length > 0 is false, as for an empty array
Admitted(f, key) == IF key \in DOMAIN f THEN f[key] ELSE <<>>

\* Array.prototype.includes
ArrayIncludes(arr, v) == \E k \in 1..Len(arr) : arr[k] = v

Passes_EmptyMatchesNothing(issue, f) ==
  /\ issue.status # "RESOLVED"
  /\ \A key \in Dims :
       DimValue(issue, key) # "" /\ ArrayIncludes(Admitted(f, key), DimValue(issue, key))

\* the callback of issues.filter in filteredIssues
Passes(issue, f) ==
  /\ issue.status # "RESOLVED"
  /\ \A key \in Dims :
       Len(Admitted(f, key)) > 0 =>
         /\ DimValue(issue, key) # ""
         /\ ArrayIncludes(Admitted(f, key), DimValue(issue, key))

FilteredIssues_DroppingFirst(issues, f) ==
  IF Len(SelectSeq(issues, LAMBDA x : Passes(x, f))) = 0 THEN <<>>
  ELSE Tail(SelectSeq(issues, LAMBDA x : Passes(x, f)))

\* filteredIssues
FilteredIssues(issues, f) ==
  IF Len(issues) = 0 THEN <<>>
  ELSE SelectSeq(issues, LAMBDA x : Passes(x, f))

\* ---- sample data --------------------------------------------------------
CriticalIssue ==
  Issue("OPEN", PriorityObj("CRITICAL"), "SEV-1", "EMERGENCY", "Plumbing",
        "A", "BREACHING", Num(3), Absent)
HighIssue ==
  Issue("IN_PROGRESS", PriorityObj("HIGH"), "SEV-2", "MONITOR", "Electrical",
        "B", "OK", Absent, Num(2))
ResolvedIssue ==
  Issue("RESOLVED", PriorityObj("CRITICAL"), "SEV-1", "EMERGENCY", "Plumbing",
        "A", "OK", Num(4), Absent)
LegacyIssue ==
  Issue("OPEN", PriorityStr("CRITICAL"), "SEV-1", "", "Plumbing", "A",
        "WARNING", Num(0), Num(5))
BareIssue == Issue("REOPENED", NoPriority, "", "", "", "", "", Str, Num(1))

\* CriticalIssue with one dimension missing
Without(key) ==
  CASE key = "priority" -> [CriticalIssue EXCEPT !.priority = PriorityObj("")]
    [] key = "severity" -> [CriticalIssue EXCEPT !.severity = ""]
    [] key = "health" -> [CriticalIssue EXCEPT !.health = ""]
    [] key = "category" -> [CriticalIssue EXCEPT !.category = ""]
    [] key = "hostel" -> [CriticalIssue EXCEPT !.hostel = ""]
    [] key = "slaStatus" -> [CriticalIssue EXCEPT !.sla = ""]

IssuePool ==
  {CriticalIssue, HighIssue, ResolvedIssue, LegacyIssue, BareIssue}
    \cup {Without(key) : key \in Dims}

MaxIssues == 2
IssueLists == UNION {[1..n -> IssuePool] : n \in 0..MaxIssues}

\* the admitted values tried for a key: none, those of CriticalIssue, and
\* those of HighIssue followed by those of CriticalIssue
AdmittedChoices(key) ==
  {<<>>, <<DimValue(CriticalIssue, key)>>,
   <<DimValue(HighIssue, key), DimValue(CriticalIssue, key)>>}
FilterStates ==
  {<<>>} \cup
  {f \in [Dims -> UNION {AdmittedChoices(key) : key \in Dims}] :
     \A key \in Dims : f[key] \in AdmittedChoices(key)}

InitApply ==
  /\ DashIdle
  /\ PageIdle
  /\ TableInit
  /\ DetailIdle
  /\ apFilters \in FilterStates
  /\ apIssues \in IssueLists
  /\ apResult = NotApplied

\* a render of IssueTable computes filteredIssues from its props
ApRender ==
  /\ UNCHANGED notApply
  /\ apResult = NotApplied
  /\ apResult' = [done |-> TRUE, out |-> FilteredIssues(apIssues, apFilters)]
  /\ UNCHANGED <<apFilters, apIssues>>

NextApply == ApRender

SpecApply == InitApply /\ [][NextApply]_vars

\* ---- Dashboard: derived lists and summary -------------------------------
\* dashboardData.issues?.issues || []
AllIssues(d) == IF d.kind = "list" THEN d.issues ELSE <<>>

ActiveIssues_WithResolved(d) == AllIssues(d)

\* allIssues.filter(i => i?.status !== 'RESOLVED')
ActiveIssues(d) == SelectSeq(AllIssues(d), LAMBDA i : i.status # "RESOLVED")

\* JavaScript truthiness of a number or a non-empty string
Truthy(v) == (v.kind = "num" /\ v.n # 0) \/ v.kind = "str"
\* a || b
OrElse(a, b) == IF Truthy(a) THEN a ELSE b

\* what one issue adds to totalComplaints
Contribution(issue) ==
  LET complaints == OrElse(OrElse(issue.total, issue.count), Num(0))
  IN IF complaints.kind = "num" THEN complaints.n ELSE 0

RECURSIVE TotalComplaints(_)
\* activeIssues.reduce((sum, issue) => sum + ..., 0)
TotalComplaints(issues) ==
  IF issues = <<>> THEN 0
  ELSE TotalComplaints(SubSeq(issues, 1, Len(issues) - 1))
         + Contribution(issues[Len(issues)])

CalculateSummaryStats_CountingAll(issuesData) ==
  LET active == ActiveIssues(issuesData)
  IN [active_issues |-> Len(AllIssues(issuesData)),
      critical_issues |->
        Len(SelectSeq(active, LAMBDA i :
              i.priority.kind \in {"obj", "str"} /\ i.priority.label = "CRITICAL")),
      sla_risk_issues |->
        Len(SelectSeq(active, LAMBDA i : i.sla \in {"WARNING", "BREACHING"})),
      complaints_today |-> TotalComplaints(active)]

\* the counters calculateSummaryStats passes to setSummaryStats
CalculateSummaryStats(issuesData) ==
  LET active == SelectSeq(AllIssues(issuesData), LAMBDA i : i.status # "RESOLVED")
  IN [active_issues |-> Len(active),
      critical_issues |->
        Len(SelectSeq(active, LAMBDA i :
              i.priority.kind \in {"obj", "str"} /\ i.priority.label = "CRITICAL")),
      sla_risk_issues |->
        Len(SelectSeq(active, LAMBDA i : i.sla \in {"WARNING", "BREACHING"})),
      complaints_today |-> TotalComplaints(active)]

\* an issues payload whose issues field is truthy but not an array
NotListIssues == [kind |-> "notlist", issues |-> <<>>]

SummaryAfter_Zeroed(issuesData, prev) ==
  IF issuesData.kind = "notlist" THEN ZeroSummary
  ELSE CalculateSummaryStats(issuesData)

\* summaryStats after calculateSummaryStats returned: allIssues.filter throws
\* a TypeError on a value that is not an array, the catch block logs it and
\* setSummaryStats is not reached
SummaryAfter(issuesData, prev) ==
  IF issuesData.kind = "notlist" THEN prev
  ELSE CalculateSummaryStats(issuesData)

\* ---- ExcelStyleFilters: the values offered ------------------------------
RECURSIVE CollectValues(_, _, _)
\* issues.forEach(issue => { ...; if (value) values.add(value) }): the values
\* in the order the Set received them
CollectValues(issues, key, values) ==
  IF issues = <<>> THEN values
  ELSE LET value == DimValue(Head(issues), key)
       IN CollectValues(Tail(issues), key,
            IF value # "" /\ ~ArrayIncludes(values, value)
            THEN Append(values, value) ELSE values)

\* the strings of the sample data in the order Array.prototype.sort gives
\* them (by UTF-16 code units)
ValueOrder ==
  <<"A", "B", "BREACHING", "C", "CRITICAL", "EMERGENCY", "Electrical", "HIGH",
    "MONITOR", "OK", "Plumbing", "SEV-1", "SEV-2", "WARNING">>
Rank(v) == CHOOSE k \in 1..Len(ValueOrder) : ValueOrder[k] = v

RECURSIVE SortValues(_)
\* [...values].sort()
SortValues(values) ==
  IF values = <<>> THEN <<>>
  ELSE LET m == CHOOSE k \in 1..Len(values) :
                  \A j \in 1..Len(values) : Rank(values[k]) <= Rank(values[j])
       IN <<values[m]>> \o
          SortValues(SubSeq(values, 1, m - 1) \o SubSeq(values, m + 1, Len(values)))

\* getUniqueValues
GetUniqueValues(issues, key) ==
  IF Len(issues) = 0 THEN <<>> ELSE SortValues(CollectValues(issues, key, <<>>))

\* arr.filter(v => v !== value)
Without1(arr, value) == SelectSeq(arr, LAMBDA v : v # value)

RECURSIVE CountSelected(_, _)
CountSelected(f, keys) ==
  IF keys = {} THEN 0
  ELSE LET key == CHOOSE k \in keys : TRUE
       IN Len(f[key]) + CountSelected(f, keys \ {key})
\* activeFilterCount
ActiveFilterCount(f) == CountSelected(f, Dims)

\* ---- sample issue lists -------------------------------------------------
OpenCritical ==
  Issue("OPEN", PriorityObj("CRITICAL"), "SEV-1", "", "", "A", "BREACHING",
        Num(3), Absent)
OpenHigh ==
  Issue("IN_PROGRESS", PriorityObj("HIGH"), "SEV-1", "", "", "B", "",
        Absent, Num(2))
Closed ==
  Issue("RESOLVED", PriorityObj("HIGH"), "SEV-1", "", "", "C", "", Num(4), Absent)
\* complaints.total is 0 and complaint_count is 5; priority is a bare string
ZeroTotal ==
  Issue("OPEN", PriorityStr("CRITICAL"), "", "", "", "A", "", Num(0), Num(5))
\* complaints.total is not a number
Malformed == Issue("REOPENED", NoPriority, "", "", "", "", "", Str, Num(1))

\* 25 active issues, 4 of them critical, and 3 resolved ones
ManyIssues ==
  [k \in 1..28 |-> IF k <= 4 THEN OpenCritical
                   ELSE IF k <= 25 THEN OpenHigh ELSE Closed]
FewIssues == <<OpenHigh, OpenCritical, ZeroTotal, Malformed, Closed>>
OneIssue == <<OpenCritical>>
AllClosed == <<Closed>>
SampleLists == {<<>>, ManyIssues, FewIssues, OneIssue, AllClosed}
\* what the issues read resolves with when the call succeeds
SamplePayloads ==
  {[kind |-> "list", issues |-> issues] : issues \in SampleLists}
    \cup {NotListIssues}

\* ---- Dashboard with panel and table: the handlers -----------------------
MaxFetching == 1

\* the content branch of the render shows IssueTableFilters and IssueTable
ShowTable(loading, err, d) ==
  ~loading /\ err = NoError /\ Len(ActiveIssues(d)) > 0

\* the panel and the table keep their state while rendered; once they leave
\* the screen their state is gone and the next mount starts from useState's
\* initial values
Children(show) ==
  IF show THEN UNCHANGED <<filters, activeFilter, currentPage, sameObject>>
  ELSE /\ filters' = EmptyFilters
       /\ activeFilter' = NoActiveFilter
       /\ currentPage' = 1
       /\ sameObject' = FALSE

\* the filteredIssues of the table on screen
TableRows == FilteredIssues(ActiveIssues(dataIssues), tableFilters)

PageAfterFilters_Kept(same, page) == page

\* useEffect(() => setCurrentPage(1), [filters]): runs when the filters prop
\* is another object than at the last render
PageAfterFilters(same, page) == IF same THEN page ELSE 1

Did(name) == lastOp' = [op |-> name, page |-> currentPage]

\* the render of Dashboard threw on allIssues.filter (dashboardData.issues
\* holds a value that is not an array): the ErrorBoundary shows its fallback
\* and Dashboard, with its interval, is unmounted
Crashed == dataIssues.kind = "notlist"

\* fetchDashboardData(true) up to its await: the interval timer, the Refresh
\* button or the retry button
StartRefresh ==
  /\ UNCHANGED notTable
  /\ ~Crashed
  /\ fetching < MaxFetching
  /\ isRefreshing' = TRUE
  /\ error' = NoError
  /\ fetching' = fetching + 1
  /\ UNCHANGED <<dataIssues, isLoading, summaryStats, tableFilters>>
  /\ Children(ShowTable(isLoading, NoError, dataIssues))
  /\ Did("refresh")

\* fetchDashboardData after its reads resolved, issuesData is what the issues
\* read gave
FetchOk(issuesData) ==
  /\ UNCHANGED notTable
  /\ ~Crashed
  /\ fetching > 0
  /\ dataIssues' = issuesData
  /\ summaryStats' = SummaryAfter(issuesData, summaryStats)
  /\ isLoading' = FALSE
  /\ isRefreshing' = FALSE
  /\ fetching' = fetching - 1
  /\ UNCHANGED <<error, tableFilters>>
  /\ Children(ShowTable(FALSE, error, issuesData))
  /\ Did("fetchOk")

\* fetchDashboardData after a read rejected or the issues read gave nothing
FetchFail(err) ==
  /\ UNCHANGED notTable
  /\ ~Crashed
  /\ fetching > 0
  /\ dataIssues' = NullIssues
  /\ summaryStats' = ZeroSummary
  /\ error' = ErrorMessage(err)
  /\ isLoading' = FALSE
  /\ isRefreshing' = FALSE
  /\ fetching' = fetching - 1
  /\ UNCHANGED tableFilters
  /\ Children(FALSE)
  /\ Did("fetchFail")

PanelShown == ShowTable(isLoading, error, dataIssues)
DashboardSame ==
  UNCHANGED <<dataIssues, isLoading, isRefreshing, error, summaryStats, fetching>>

\* setFilters(newFilters) and onFiltersChange(newFilters)
SetBoth(newFilters) ==
  /\ filters' = newFilters
  /\ tableFilters' = newFilters
  /\ sameObject' = TRUE
  /\ currentPage' = PageAfterFilters(FALSE, currentPage)

HandleFilterToggle(key) ==
  /\ UNCHANGED notTable
  /\ PanelShown
  /\ activeFilter' = IF activeFilter = key THEN NoActiveFilter ELSE key
  /\ DashboardSame
  /\ UNCHANGED <<tableFilters, filters, currentPage, sameObject>>
  /\ Did("handleFilterToggle")

HandleClickOutside ==
  /\ UNCHANGED notTable
  /\ PanelShown
  /\ activeFilter # NoActiveFilter
  /\ activeFilter' = NoActiveFilter
  /\ DashboardSame
  /\ UNCHANGED <<tableFilters, filters, currentPage, sameObject>>
  /\ Did("handleClickOutside")

\* getUniqueValues(key) in the panel, whose issues prop is activeIssues
AvailableValues(key) == GetUniqueValues(ActiveIssues(dataIssues), key)

\* the values listed under the open filter: getFilterValues()
Offered ==
  IF activeFilter = NoActiveFilter THEN {}
  ELSE {AvailableValues(activeFilter)[k] :
          k \in 1..Len(AvailableValues(activeFilter))}

ToggleValue_Appending(f, key, value) ==
  [f EXCEPT ![key] = Append(f[key], value)]

\* newFilters of handleValueToggle, key being the active filter
ToggleValue(f, key, value) ==
  LET current == f[key]
      exists == ArrayIncludes(current, value)
  IN [f EXCEPT ![key] =
        IF exists THEN Without1(current, value) ELSE Append(current, value)]

\* newFilters of handleRemoveFilter
RemoveValue(f, key, value) == [f EXCEPT ![key] = Without1(f[key], value)]

\* handleValueToggle(value, e) for a value of the list
HandleValueToggle ==
  /\ UNCHANGED notTable
  /\ PanelShown
  /\ activeFilter # NoActiveFilter
  /\ \E value \in Offered : SetBoth(ToggleValue(filters, activeFilter, value))
  /\ DashboardSame
  /\ UNCHANGED activeFilter
  /\ Did("handleValueToggle")

HandleSelectAll ==
  /\ UNCHANGED notTable
  /\ PanelShown
  /\ activeFilter # NoActiveFilter
  /\ SetBoth([filters EXCEPT ![activeFilter] = AvailableValues(activeFilter)])
  /\ DashboardSame
  /\ UNCHANGED activeFilter
  /\ Did("handleSelectAll")

HandleSelectNone ==
  /\ UNCHANGED notTable
  /\ PanelShown
  /\ activeFilter # NoActiveFilter
  /\ SetBoth([filters EXCEPT ![activeFilter] = <<>>])
  /\ DashboardSame
  /\ UNCHANGED activeFilter
  /\ Did("handleSelectNone")

\* the Apply button is disabled while nothing is selected
HandleApplyFilters ==
  /\ UNCHANGED notTable
  /\ PanelShown
  /\ ActiveFilterCount(filters) > 0
  /\ tableFilters' = filters
  /\ currentPage' = PageAfterFilters(sameObject, currentPage)
  /\ sameObject' = TRUE
  /\ activeFilter' = NoActiveFilter
  /\ DashboardSame
  /\ UNCHANGED filters
  /\ Did("handleApplyFilters")

\* the Clear button is rendered while something is selected
HandleClearAllFilters ==
  /\ UNCHANGED notTable
  /\ PanelShown
  /\ ActiveFilterCount(filters) > 0
  /\ SetBoth(EmptyFilters)
  /\ activeFilter' = NoActiveFilter
  /\ DashboardSame
  /\ Did("handleClearAllFilters")

\* the chips of a key: filters[key].map(v => ...)
Chips(key) == {filters[key][k] : k \in 1..Len(filters[key])}

\* handleRemoveFilter(key, value) by the chip of a selected value
HandleRemoveFilter ==
  /\ UNCHANGED notTable
  /\ PanelShown
  /\ \E key \in Dims : \E value \in Chips(key) :
       SetBoth(RemoveValue(filters, key, value))
  /\ DashboardSame
  /\ UNCHANGED activeFilter
  /\ Did("handleRemoveFilter")

\* the pages the enabled buttons of the footer call goToPage with
FooterTargets ==
  LET tp == TotalPages(Len(TableRows))
      numbers == PaginationNumbers(currentPage, tp)
  IN (IF currentPage = 1 THEN {} ELSE {1, currentPage - 1})
       \cup {numbers[k] : k \in 1..Len(numbers)}
       \cup (IF currentPage = tp THEN {} ELSE {currentPage + 1, tp})

\* goToPage(page) by a button of the footer of the table
GoToPage ==
  /\ UNCHANGED notTable
  /\ PanelShown
  /\ Len(TableRows) > 0
  /\ \E page \in FooterTargets :
       currentPage' = GoToPageResult(currentPage, TotalPages(Len(TableRows)), page)
  /\ DashboardSame
  /\ UNCHANGED <<tableFilters, filters, activeFilter, sameObject>>
  /\ Did("goToPage")

\* the "Clear all filters" button of the "No Matching Issues" message and
\* the reload button of the ErrorBoundary: window.location.reload() loads the
\* page anew
ReloadPage ==
  /\ UNCHANGED notTable
  /\ \/ Crashed
     \/ /\ PanelShown
        /\ Len(TableRows) = 0
        /\ \E key \in DOMAIN tableFilters : Len(tableFilters[key]) > 0
  /\ dataIssues' = NullIssues
  /\ isLoading' = TRUE
  /\ isRefreshing' = FALSE
  /\ error' = NoError
  /\ summaryStats' = ZeroSummary
  /\ fetching' = 1
  /\ tableFilters' = <<>>
  /\ Children(FALSE)
  /\ Did("reload")

InitTable == DashIdle /\ PageIdle /\ ApplyIdle /\ DetailIdle /\ TableInit

NextTable ==
  \/ StartRefresh
  \/ \E issuesData \in SamplePayloads : FetchOk(issuesData)
  \/ \E err \in RejectErrors \cup {NoIssuesError} : FetchFail(err)
  \/ \E key \in Dims : HandleFilterToggle(key)
  \/ HandleClickOutside
  \/ HandleValueToggle
  \/ HandleSelectAll
  \/ HandleSelectNone
  \/ HandleApplyFilters
  \/ HandleClearAllFilters
  \/ HandleRemoveFilter
  \/ GoToPage
  \/ ReloadPage

SpecTable == InitTable /\ [][NextTable]_vars

\* ---- IssueDetail --------------------------------------------------------
MaxDetailFetches == 2   \* getIssueDetails calls in flight at the same time
MaxSuccessTimers == 1   \* pending timeouts of the success message

Statuses == {"OPEN", "IN_PROGRESS", "RESOLVED", "REOPENED"}

\* an error of the issue clients: the detail of its response body and its
\* message, "" where the error has none
DetailErrors ==
  {[detail |-> "Issue not found", message |-> "Request failed with status code 404"],
   [detail |-> "", message |-> "Network Error"],
   [detail |-> "", message |-> ""]}
FirstTruthy_NoFallback(err, fallback) ==
  IF err.detail # "" THEN err.detail ELSE err.message

\* err.response?.data?.detail || err.message || fallback
FirstTruthy(err, fallback) ==
  IF err.detail # "" THEN err.detail
  ELSE IF err.message # "" THEN err.message
  ELSE fallback

\* the updater passed to setIssue by handleStatusUpdate
WithStatus(prev, newStatus) ==
  [prev EXCEPT !.status = newStatus,
               !.resolved_at = IF newStatus = "RESOLVED" THEN "now" ELSE @]

IssueBeforeConfirmation_Optimistic(prev, newStatus) == WithStatus(prev, newStatus)

\* the issue state between the call of handleStatusUpdate and the settlement
\* of updateStatus: no setIssue precedes the await
IssueBeforeConfirmation(prev, newStatus) == prev

DetailFetchesInFlight ==
  LET Sum[S \in SUBSET IssueIds] ==
        IF S = {} THEN 0
        ELSE LET id == CHOOSE x \in S : TRUE
             IN detailFetches[id] + Sum[S \ {id}]
  IN Sum[IssueIds]

\* IssueDetail renders the skeleton while isLoading, else the error view if
\* (error || !issue), else the issue view
MainShown == ~detail.isLoading /\ detail.error = NoError /\ detail.issue # NullIssue

\* fetchIssueDetails up to its await, isFetching being the value of the
\* render whose closure is called
StartDetailFetch(d, id, isFetching) ==
  /\ DetailFetchesInFlight < MaxDetailFetches
  /\ detail' = [d EXCEPT !.isLoading = IF ~isFetching THEN TRUE ELSE @,
                         !.error = NoError]
  /\ detailFetches' = [detailFetches EXCEPT ![id] = @ + 1]

\* the route changes to another issue: useEffect([issueId])
Navigate(id) ==
  /\ UNCHANGED notDetail
  /\ id # route
  /\ route' = id
  /\ StartDetailFetch(detail, id, detail.isFetching)
  /\ UNCHANGED <<statusWrite, successTimers>>

\* handleRefresh, by the button of the error view or of the issue view; the
\* fetchIssueDetails it calls still sees isFetching false
HandleRefresh ==
  /\ UNCHANGED notDetail
  /\ ~detail.isLoading
  /\ ~detail.isFetching
  /\ StartDetailFetch([detail EXCEPT !.isFetching = TRUE], route, detail.isFetching)
  /\ UNCHANGED <<route, statusWrite, successTimers>>

\* fetchIssueDetails after getIssueDetails(id) resolved with the issue of
\* that id; the server has set resolved_at on a resolved one
DetailFetchOk(id, status) ==
  /\ UNCHANGED notDetail
  /\ detailFetches[id] > 0
  /\ detailFetches' = [detailFetches EXCEPT ![id] = @ - 1]
  /\ detail' = [detail EXCEPT !.issue =
                                [id |-> id, status |-> status,
                                 resolved_at |-> IF status = "RESOLVED"
                                                 THEN "server" ELSE "null"],
                              !.isLoading = FALSE, !.isFetching = FALSE]
  /\ UNCHANGED <<route, statusWrite, successTimers>>

\* fetchIssueDetails after getIssueDetails(id) rejected
DetailFetchFail(id, err) ==
  /\ UNCHANGED notDetail
  /\ detailFetches[id] > 0
  /\ detailFetches' = [detailFetches EXCEPT ![id] = @ - 1]
  /\ detail' = [detail EXCEPT !.error = FirstTruthy(err, "Failed to load issue details"),
                              !.isLoading = FALSE, !.isFetching = FALSE]
  /\ UNCHANGED <<route, statusWrite, successTimers>>

\* the Change Status button
OpenStatusModal ==
  /\ UNCHANGED notDetail
  /\ MainShown
  /\ ~detail.isStatusModalOpen
  /\ detail' = [detail EXCEPT !.isStatusModalOpen = TRUE]
  /\ UNCHANGED <<route, detailFetches, statusWrite, successTimers>>

\* the close and cancel buttons of the dialog, disabled during an update
CloseStatusModal ==
  /\ UNCHANGED notDetail
  /\ MainShown
  /\ detail.isStatusModalOpen
  /\ ~detail.isUpdatingStatus
  /\ detail' = [detail EXCEPT !.isStatusModalOpen = FALSE]
  /\ UNCHANGED <<route, detailFetches, statusWrite, successTimers>>

\* handleStatusUpdate(newStatus) up to its await, by a status button of the
\* dialog
HandleStatusUpdate(newStatus) ==
  /\ UNCHANGED notDetail
  /\ MainShown
  /\ detail.isStatusModalOpen
  /\ ~detail.isUpdatingStatus
  /\ newStatus # detail.issue.status
  /\ successTimers < MaxSuccessTimers
  /\ detail' = [detail EXCEPT
                  !.issue = IssueBeforeConfirmation(@, newStatus),
                  !.isUpdatingStatus = TRUE,
                  !.statusError = NoError,
                  !.statusSuccess = FALSE]
  /\ statusWrite' = [pending |-> TRUE, id |-> route, newStatus |-> newStatus]
  /\ UNCHANGED <<route, detailFetches, successTimers>>

\* handleStatusUpdate after updateStatus resolved
StatusUpdateOk ==
  /\ UNCHANGED notDetail
  /\ statusWrite.pending
  /\ detail' = [detail EXCEPT
                  !.issue = WithStatus(@, statusWrite.newStatus),
                  !.statusSuccess = TRUE,
                  !.isStatusModalOpen = FALSE,
                  !.isUpdatingStatus = FALSE]
  /\ successTimers' = successTimers + 1
  /\ statusWrite' = NoWrite
  /\ UNCHANGED <<route, detailFetches>>

\* handleStatusUpdate after updateStatus rejected
StatusUpdateFail(err) ==
  /\ UNCHANGED notDetail
  /\ statusWrite.pending
  /\ detail' = [detail EXCEPT
                  !.statusError = FirstTruthy(err, "Failed to update issue status"),
                  !.isUpdatingStatus = FALSE]
  /\ statusWrite' = NoWrite
  /\ UNCHANGED <<route, detailFetches, successTimers>>

\* setTimeout(() => setStatusSuccess(false), 3000)
SuccessTimeout ==
  /\ UNCHANGED notDetail
  /\ successTimers > 0
  /\ successTimers' = successTimers - 1
  /\ detail' = [detail EXCEPT !.statusSuccess = FALSE]
  /\ UNCHANGED <<route, detailFetches, statusWrite>>

\* the page is opened on an issue: first render and effect
InitDetailPage ==
  /\ DashIdle /\ PageIdle /\ ApplyIdle /\ TableInit
  /\ route \in IssueIds
  /\ detail = InitDetail
  /\ detailFetches = [id \in IssueIds |-> IF id = route THEN 1 ELSE 0]
  /\ statusWrite = NoWrite
  /\ successTimers = 0

NextDetail ==
  \/ \E id \in IssueIds : Navigate(id)
  \/ HandleRefresh
  \/ \E id \in IssueIds, status \in Statuses : DetailFetchOk(id, status)
  \/ \E id \in IssueIds, err \in DetailErrors : DetailFetchFail(id, err)
  \/ OpenStatusModal
  \/ CloseStatusModal
  \/ \E newStatus \in Statuses : HandleStatusUpdate(newStatus)
  \/ StatusUpdateOk
  \/ \E err \in DetailErrors : StatusUpdateFail(err)
  \/ SuccessTimeout

SpecDetail == InitDetailPage /\ [][NextDetail]_vars

\* ---- properties ---------------------------------------------------------
\* call c resumes in this step
Resumes(c) == calls[c].st = "settled" /\ calls'[c].st # "settled"
\* instance i has been unmounted
Disposed(i) == i < inst \/ (i = inst /\ ~mounted)
RejectionMessages == {ErrNotFound, ErrServer, ErrNetwork, ErrGeneric}

\* C1: when Promise.all of a call rejected (any read, whatever the state of
\* the other three), the state the call writes when it resumes has all four
\* snapshot fields null and a non-null error; the call ends as failed.
C1_FailureDiscardsSnapshot ==
  [][\A c \in CallIds :
       (Resumes(c) /\ calls[c].err # NoErr) =>
         /\ calls'[c].st = "failed"
         /\ view'[calls[c].owner].data = NullData
         /\ view'[calls[c].owner].error # NoError]_vars

\* a view whose installed snapshot was discarded by a rejected read
C1_Witness ==
  \E i \in InstIds :
    /\ lastDone[i] # 0
    /\ calls[lastDone[i]].st = "failed"
    /\ view[i].lastUpdated # 0
    /\ view[i].data = NullData
    /\ view[i].error \in RejectionMessages

\* C2 (as claimed): when a call resumes successfully, the state right after
\* holds its four payloads and error = null, whatever other calls did.
C2_SuccessInstallsAndClearsError ==
  [][\A c \in CallIds :
       (Resumes(c) /\ calls'[c].st = "ok") =>
         /\ view'[calls[c].owner].data = Installed(c, calls[c].payload)
         /\ view'[calls[c].owner].error = NoError]_vars

\* C3: the snapshot of every instance is all null (no call completed yet, or
\* the last call to complete failed) or made of the payloads of the last call
\* to complete and of nothing else.
C3_SnapshotOfLastCompleted ==
  \A i \in InstIds :
    LET c == lastDone[i]
        d == view[i].data
    IN IF c = 0 \/ calls[c].st = "failed"
       THEN d = NullData
       ELSE /\ calls[c].st = "ok"
            /\ d.issues = c
            /\ \A f \in Reads : d[f] \in {0, c}

\* two calls of the one instance both succeeded; the one started first
\* completed last and its payloads are the snapshot
C3_Witness ==
  /\ inst = 1
  /\ calls[1].st = "ok" /\ calls[2].st = "ok"
  /\ lastDone[1] = 1
  /\ view[1].data.issues = 1

\* C4 (as claimed): a call with isRefresh = true changes isLoading neither
\* when it starts nor when it resumes.
C4_RefreshLeavesIsLoading ==
  [][\A c \in CallIds :
       /\ (calls[c].st = "unused" /\ calls'[c].st = "pending" /\ calls'[c].isRefresh)
            => view'[calls'[c].owner].isLoading = view[calls'[c].owner].isLoading
       /\ (Resumes(c) /\ calls[c].isRefresh)
            => view'[calls[c].owner].isLoading = view[calls[c].owner].isLoading]_vars

\* C5: exactly one live interval while an instance is mounted (its own),
\* none while none is; every call made by an interval tick has isRefresh.
C5_OneTimerPerMountedView ==
  /\ Cardinality(timers) = IF mounted THEN 1 ELSE 0
  /\ mounted => timers = {inst}
  /\ \A c \in CallIds : calls[c].origin = "timer" => calls[c].isRefresh

\* the view has been mounted, unmounted and mounted again
C5_Witness == inst = 2 /\ mounted /\ timers = {2}

\* C6 (as claimed): once an instance is unmounted, no step writes its state.
C6_NoWriteAfterTeardown ==
  [][\A i \in InstIds : Disposed(i) => view'[i] = view[i]]_vars

\* C7 (as claimed): the failure handling of a call is triggered only once
\* all four of its reads have settled.
C7_FailureAfterAllSettled ==
  \A c \in CallIds :
    (calls[c].st = "settled" /\ calls[c].err # NoErr) => calls[c].stillPending = {}

\* C7 (amended): a call resumes successfully only after all four reads were
\* fulfilled; a rejected read settles the join at once, also while other reads
\* are pending, and the call then ends as failed with the snapshot discarded;
\* no call ends without its join having settled.
C7_JoinFailsFast ==
  [][\A c \in CallIds :
       /\ (calls[c].st = "pending" /\ calls'[c].st = "settled" /\ calls'[c].err = NoErr)
            => Cardinality({r \in Reads : calls[c].reads[r] = "pending"}) = 1
       /\ (calls[c].st = "pending" /\ calls'[c].reads # calls[c].reads
             /\ calls'[c].st = "pending")
            => \E r \in Reads : calls'[c].reads[r] = "pending"
       /\ (Resumes(c) /\ calls[c].err # NoErr)
            => calls'[c].st = "failed" /\ view'[calls[c].owner].data = NullData
       /\ (calls'[c].st \in {"ok", "failed"} /\ calls[c].st # calls'[c].st)
            => calls[c].st = "settled"]_vars

\* the join of a call has rejected while three of its reads were pending
C7_Witness ==
  \E c \in CallIds :
    /\ calls[c].st = "settled"
    /\ calls[c].err # NoErr
    /\ Cardinality(calls[c].stillPending) = 3

\* C8: a call whose four reads were fulfilled but whose issues payload is
\* falsy ends as failed: the snapshot is all null and the error is the
\* empty-data message.
C8_MissingIssuesIsFailure ==
  [][\A c \in CallIds :
       (Resumes(c) /\ calls[c].err = NoErr /\ calls[c].payload["issues"] = "falsy") =>
         /\ calls'[c].st = "failed"
         /\ view'[calls[c].owner].data = NullData
         /\ view'[calls[c].owner].error = ErrEmptyData]_vars

\* a view whose installed snapshot was discarded for a missing issues payload
C8_Witness ==
  \E i \in InstIds :
    /\ lastDone[i] # 0
    /\ calls[lastDone[i]].st = "failed"
    /\ view[i].lastUpdated # 0
    /\ view[i].data = NullData
    /\ view[i].error = ErrEmptyData

\* C9 (as claimed): a call failed by an error whose response status is 5xx
\* shows the server-error message.
C9_ServerErrorMessage ==
  [][\A c \in CallIds :
       (Resumes(c) /\ calls[c].err.status \in 500..599) =>
         view'[calls[c].owner].error = ErrServer]_vars

\* C10 (as claimed): a call failed by an error without a response shows the
\* connection-failed message.
C10_NoResponseMessage ==
  [][\A c \in CallIds :
       (Resumes(c) /\ calls[c].err # NoErr /\ calls[c].err.status = 0) =>
         view'[calls[c].owner].error = ErrNetwork]_vars

\* C16 (as claimed): totalPages is max(1, ceil(n / 20)) for every filtered
\* count n, hence 1 when no issue passes the filter.
C16_TotalPagesFlooredAtOne ==
  LET tp == TotalPages(pgCount) IN
  /\ tp >= 1
  /\ itemsPerPage * tp >= pgCount
  /\ (pgCount > 0 => itemsPerPage * (tp - 1) < pgCount)

\* C16 (amended): totalPages is ceil(n / 20) without a floor: 0 when no issue
\* passes the filter, else the least number of pages of 20 that hold n issues
\* (at least 1); 25 issues give 2 pages.
C16_TotalPagesIsCeiling ==
  LET tp == TotalPages(pgCount) IN
  /\ (pgCount = 0 => tp = 0)
  /\ (pgCount > 0 => tp >= 1)
  /\ itemsPerPage * tp >= pgCount
  /\ (pgCount > 0 => itemsPerPage * (tp - 1) < pgCount)
  /\ (pgCount = 25 => tp = 2)

\* 25 issues pass the filter
C16_Witness == pgCount = 25 /\ TotalPages(pgCount) = 2

\* C17: the page window is [1..totalPages] if totalPages <= 5, else [1..5] if
\* currentPage <= 3, else [totalPages-4..totalPages] if currentPage >=
\* totalPages - 2, else [currentPage-2..currentPage+2]; so it has at most 5
\* consecutive ascending numbers within 1..totalPages and holds currentPage
\* whenever that is within 1..totalPages.
C17_PageWindow ==
  LET tp == TotalPages(pgCount)
      w == PaginationNumbers(pgPage, tp)
      first == IF tp <= 5 THEN 1
               ELSE IF pgPage <= 3 THEN 1
               ELSE IF pgPage >= tp - 2 THEN tp - 4
               ELSE pgPage - 2
      size == IF tp <= 5 THEN tp ELSE 5
  IN /\ Len(w) = size
     /\ \A k \in 1..Len(w) : w[k] = first + k - 1
     /\ Len(w) <= 5
     /\ \A k \in 1..Len(w) : w[k] >= 1 /\ w[k] <= tp
     /\ \A k \in 1..(Len(w) - 1) : w[k + 1] = w[k] + 1
     /\ (pgPage >= 1 /\ pgPage <= tp) => \E k \in 1..Len(w) : w[k] = pgPage

\* a window in the middle of more than five pages
C17_Witness ==
  /\ TotalPages(pgCount) = 10
  /\ pgPage = 6
  /\ PaginationNumbers(pgPage, TotalPages(pgCount)) = <<4, 5, 6, 7, 8>>

\* C18: goToPage(n) with n < 1 or n > totalPages leaves currentPage as it was;
\* with 1 <= n <= totalPages it sets currentPage to n.
C18_GoToPage ==
  pgLast.called =>
    LET tp == TotalPages(pgCount) IN
    /\ (pgLast.arg < 1 \/ pgLast.arg > tp) => pgPage = pgLast.before
    /\ (pgLast.arg >= 1 /\ pgLast.arg <= tp) => pgPage = pgLast.arg

\* goToPage(totalPages + 1) was called on page 3 of 3
C18_Witness ==
  /\ pgLast.called
  /\ TotalPages(pgCount) = 3
  /\ pgLast.arg = 4
  /\ pgLast.before = 3
  /\ pgPage = 3

\* C11: an issue of I is in apply(f, I) iff its status is not RESOLVED and for
\* each of the six dimensions with a non-empty admitted set its value is
\* present and in that set; an empty set constrains nothing, a missing value
\* for a constrained dimension never passes, and apply(f, I) is a sublist of
\* the non-RESOLVED issues of I.
C11_ApplyCharacterised ==
  apResult.done =>
    LET Has(x, key) ==
          CASE key = "priority" -> x.priority.kind = "obj" /\ x.priority.label # ""
            [] key = "severity" -> x.severity # ""
            [] key = "health" -> x.health # ""
            [] key = "category" -> x.category # ""
            [] key = "hostel" -> x.hostel # ""
            [] key = "slaStatus" -> x.sla # ""
        Val(x, key) ==
          CASE key = "priority" -> x.priority.label
            [] key = "severity" -> x.severity
            [] key = "health" -> x.health
            [] key = "category" -> x.category
            [] key = "hostel" -> x.hostel
            [] key = "slaStatus" -> x.sla
        Set(key) ==
          IF key \in DOMAIN apFilters
          THEN {apFilters[key][k] : k \in 1..Len(apFilters[key])} ELSE {}
        Ok(x) ==
          /\ x.status # "RESOLVED"
          /\ \A key \in Dims : Set(key) # {} => Has(x, key) /\ Val(x, key) \in Set(key)
    IN /\ apResult.out = SelectSeq(apIssues, Ok)
       /\ \A k \in 1..Len(apResult.out) : apResult.out[k].status # "RESOLVED"
       /\ (\A key \in Dims : Set(key) = {}) =>
            apResult.out = SelectSeq(apIssues, LAMBDA x : x.status # "RESOLVED")

\* an issue lacking the hostel passes no filter on hostel while another issue
\* of the list passes it
C11_Witness ==
  /\ apResult.done
  /\ apFilters # <<>>
  /\ Len(apFilters["hostel"]) > 0
  /\ apIssues = <<Without("hostel"), CriticalIssue>>
  /\ apResult.out = <<CriticalIssue>>

\* C12 (as claimed): availableValues(dimension) is the ascending, duplicate-free
\* list of the non-empty values of the dimension occurring in the current raw
\* issue list, resolved issues included.
C12_ValuesOfRawList ==
  \A key \in Dims :
    LET offered == AvailableValues(key)
        raw == AllIssues(dataIssues)
        Val(x) ==
          CASE key = "priority" ->
                 IF x.priority.kind = "obj" THEN x.priority.label ELSE ""
            [] key = "severity" -> x.severity
            [] key = "health" -> x.health
            [] key = "category" -> x.category
            [] key = "hostel" -> x.hostel
            [] key = "slaStatus" -> x.sla
    IN /\ {offered[k] : k \in 1..Len(offered)}
            = {Val(raw[k]) : k \in 1..Len(raw)} \ {""}
       /\ \A k \in 1..(Len(offered) - 1) : Rank(offered[k]) < Rank(offered[k + 1])

\* C12 (amended): availableValues(dimension) is the ascending, duplicate-free
\* list of the non-empty values of the dimension occurring in the non-RESOLVED
\* issues of the current raw issue list (hostels B, A, A give [A, B]); it is
\* derived from the data, not from FilterState.
C12_ValuesOfActiveIssues ==
  \A key \in Dims :
    LET offered == AvailableValues(key)
        raw == AllIssues(dataIssues)
        Val(x) ==
          CASE key = "priority" ->
                 IF x.priority.kind = "obj" THEN x.priority.label ELSE ""
            [] key = "severity" -> x.severity
            [] key = "health" -> x.health
            [] key = "category" -> x.category
            [] key = "hostel" -> x.hostel
            [] key = "slaStatus" -> x.sla
    IN /\ {offered[k] : k \in 1..Len(offered)}
            = {Val(raw[k]) : k \in {j \in 1..Len(raw) : raw[j].status # "RESOLVED"}}
                \ {""}
       /\ \A k \in 1..(Len(offered) - 1) : Rank(offered[k]) < Rank(offered[k + 1])

\* hostel B was selected while the active issues had hostels B, A, A and
\* none (offered: A, B); the list installed since has no B and only A is
\* offered
C12_Witness ==
  /\ dataIssues.kind = "list"
  /\ dataIssues.issues = OneIssue
  /\ filters["hostel"] = <<"B">>
  /\ fetching = 0
  /\ AvailableValues("hostel") = <<"A">>
  /\ GetUniqueValues(ActiveIssues([kind |-> "list", issues |-> FewIssues]),
                     "hostel") = <<"A", "B">>

\* C13 (as claimed): the admitted sets of the filter panel are changed only by
\* toggleValue, selectAll, selectNone, clearAll and removeValue; the start of a
\* refresh and its completion, successful or failed, leave them unchanged.
C13_RefreshKeepsFilterState ==
  [][(\/ StartRefresh
      \/ \E issuesData \in SamplePayloads : FetchOk(issuesData)
      \/ \E err \in RejectErrors \cup {NoIssuesError} : FetchFail(err))
       => filters' = filters]_vars

\* C14: after toggleValue, selectAll, selectNone, clearAll or removeValue,
\* whatever currentPage was before, currentPage is 1; with 25 active issues on
\* page 2, admitting priority CRITICAL (4 issues) gives page 1 of 1.
C14_MutationResetsPage ==
  lastOp.op \in {"handleValueToggle", "handleSelectAll", "handleSelectNone",
                 "handleClearAllFilters", "handleRemoveFilter"}
    => currentPage = 1

\* on page 2 of the 25 active issues, CRITICAL was toggled on
C14_Witness ==
  /\ lastOp = [op |-> "handleValueToggle", page |-> 2]
  /\ dataIssues.issues = ManyIssues
  /\ tableFilters["priority"] = <<"CRITICAL">>
  /\ Len(TableRows) = 4
  /\ currentPage = 1
  /\ TotalPages(Len(TableRows)) = 1

\* C15 (as claimed): a refresh, which never changes the filters, leaves
\* currentPage as it found it, at its start and at its completion.
C15_RefreshKeepsPage ==
  lastOp.op \in {"refresh", "fetchOk", "fetchFail"} => currentPage = lastOp.page

\* C19: for every issue list installed by a successful fetch,
\* summary.active_issues is the number of its issues whose status is not
\* RESOLVED, whatever the filters and the page are.
C19_ActiveIssuesCount ==
  dataIssues.kind = "list" =>
    summaryStats.active_issues =
      Cardinality({k \in 1..Len(dataIssues.issues) :
                     dataIssues.issues[k].status # "RESOLVED"})

\* 25 active and 3 resolved issues are installed, a filter admits 4 of them
C19_Witness ==
  /\ dataIssues.kind = "list"
  /\ dataIssues.issues = ManyIssues
  /\ summaryStats.active_issues = 25
  /\ Len(TableRows) = 4
  /\ lastOp.op = "fetchOk"

\* C20 (as claimed): complaints_today is the sum over the non-RESOLVED issues
\* of complaints.total if present, else complaint_count if present, else 0,
\* a non-numeric contribution counting 0; a total of 0 contributes 0.
C20_ComplaintsTodayNullish ==
  dataIssues.kind = "list" =>
    LET Claimed(x) ==
          IF x.total.kind # "absent"
          THEN (IF x.total.kind = "num" THEN x.total.n ELSE 0)
          ELSE IF x.count.kind # "absent"
               THEN (IF x.count.kind = "num" THEN x.count.n ELSE 0)
               ELSE 0
        active == SelectSeq(dataIssues.issues, LAMBDA x : x.status # "RESOLVED")
        Sum[k \in 0..Len(active)] ==
          IF k = 0 THEN 0 ELSE Sum[k - 1] + Claimed(active[k])
    IN summaryStats.complaints_today = Sum[Len(active)]

C23_ToggleAndRemove ==
  \A key \in Dims :
    \A value \in {ValueOrder[k] : k \in 1..Len(ValueOrder)} :
      LET Set(f, d) == {f[d][k] : k \in 1..Len(f[d])}
          once == ToggleValue(filters, key, value)
          twice == ToggleValue(once, key, value)
      IN /\ Set(once, key) =
              IF value \in Set(filters, key)
              THEN Set(filters, key) \ {value}
              ELSE Set(filters, key) \cup {value}
         /\ \A d \in Dims \ {key} : once[d] = filters[d]
         /\ \A d \in Dims : Set(twice, d) = Set(filters, d)
         /\ value \in Set(filters, key)
              => RemoveValue(filters, key, value) = once

\* hostel B then A were toggled on, with a priority selected as well
C23_Witness ==
  /\ lastOp.op = "handleValueToggle"
  /\ activeFilter = "hostel"
  /\ filters["hostel"] = <<"B", "A">>
  /\ filters["priority"] = <<"CRITICAL">>
  /\ tableFilters = filters

\* C25 (as claimed): whenever the filter panel is on screen, the admitted
\* sets it shows are those of the filters applied to the issue table.
C25_PanelShowsAppliedFilters ==
  PanelShown =>
    \A key \in Dims :
      {filters[key][k] : k \in 1..Len(filters[key])}
        = {Admitted(tableFilters, key)[k] :
             k \in 1..Len(Admitted(tableFilters, key))}

\* C26 (as claimed): whenever error is null and isLoading is false, the
\* issues payload of the snapshot is not null.
C26_NoErrorMeansData ==
  (error = NoError /\ ~isLoading) => dataIssues # NullIssues

\* C24: apply is idempotent: applying the filters to the list they gave
\* gives that list again.
C24_ApplyIdempotent ==
  apResult.done => FilteredIssues(apResult.out, apFilters) = apResult.out

\* some issues passed a filter on hostel and category, another did not
C24_Witness ==
  /\ apResult.done
  /\ apFilters # <<>>
  /\ Len(apFilters["hostel"]) > 0
  /\ Len(apFilters["category"]) > 0
  /\ Len(apResult.out) = 2
  /\ Len(apIssues) = 2
  /\ apIssues[1] # apIssues[2]
  /\ FilteredIssues(apResult.out, apFilters) = apResult.out

\* C28 (as claimed): the number of issues passing the filters priority =
\* {CRITICAL}, all other dimensions empty, is summary.critical_issues of the
\* same list, legacy issues with the bare string 'CRITICAL' included.
C28_CriticalCountsAgree ==
  (apResult.done /\ apFilters = [EmptyFilters EXCEPT !["priority"] = <<"CRITICAL">>])
    => Len(apResult.out)
         = CalculateSummaryStats([kind |-> "list", issues |-> apIssues]).critical_issues

\* C27 (as claimed): while a call of the mounted dashboard is awaiting its
\* reads, isLoading or isRefreshing is true.
C27_InFlightMeansBusy ==
  \A c \in CallIds :
    (mounted /\ calls[c].owner = inst /\ calls[c].st = "pending")
      => (view[inst].isLoading \/ view[inst].isRefreshing)

C29_UpdateOutcomes ==
  [][/\ (\E err \in DetailErrors : StatusUpdateFail(err))
          => /\ detail'.issue = detail.issue
             /\ detail'.statusError # NoError
             /\ detail'.statusError # ""
             /\ detail'.isStatusModalOpen
             /\ ~detail'.isUpdatingStatus
     /\ StatusUpdateOk
          => /\ ~detail'.isUpdatingStatus
             /\ detail'.issue.status = statusWrite.newStatus
             /\ detail'.issue.resolved_at =
                  IF statusWrite.newStatus = "RESOLVED" THEN "now"
                  ELSE detail.issue.resolved_at]_vars

C29_Witness ==
  /\ ~statusWrite.pending
  /\ detail.statusError = "Failed to update issue status"
  /\ detail.isStatusModalOpen
  /\ ~detail.isUpdatingStatus
  /\ detail.issue # NullIssue

\* C30 as stated: once no fetch is in flight, the issue on display is the one
\* of the current route.
C30_DisplayedIssueIsRoute ==
  (DetailFetchesInFlight = 0 /\ MainShown) => detail.issue.id = route

====
